---- MODULE Spec2Model ----
(***************************************************************************)
(* EchoDB auto-mirror control plane: the circuit breaker                   *)
(* (scripts/circuit_breaker.py), the Redis lease leader election           *)
(* (scripts/leader_election.py) and the notification reconciler            *)
(* (scripts/auto-mirror-worker.py), as state machines.                     *)
(*                                                                         *)
(* Nine specifications share the variables:                                *)
(*   SpecBreaker    concurrent callers of one CircuitBreaker and a clock   *)
(*   SpecBreakerReset  the same, with reset() called at any time           *)
(*   SpecLease      two LeaderElection objects on one lease key, with key  *)
(*                  expiry interleaving freely with every step             *)
(*   SpecLeaseTimed the same, with every thread's steps taken on time      *)
(*   Spec           one worker's listen_for_tables loop with its heartbeat,*)
(*                  the dedup registry, the executor and the replicator    *)
(*   SpecExecutor   top-level invocations of the two executors behind the  *)
(*                  breaker, with the replicator's reply to every attempt  *)
(*   SpecSchemas    the executors invoked for the tables of two synced     *)
(*                  schemas                                                *)
(*   SpecSession    the worker's main thread alone, with every kind of     *)
(*                  payload a session can be sent and the verifier's       *)
(*                  probes one at a time                                   *)
(*   SpecFailover   two workers' acquisition loops and heartbeats on time, *)
(*                  and the leader's process killed                        *)
(* An Optional value (None or x) is the set {} or {x}.                     *)
(***************************************************************************)
EXTENDS Integers, Sequences, FiniteSets, TLC

VARIABLES
    \* ---- circuit_breaker.py: the peerdb_api breaker and its callers
    breaker,            \* [state, failure_count, success_count, last_failure_time]
    now,                \* time.time(), in ticks
    calls,              \* per caller of call(): [pc, probe, outcome]
    probe_failed_at,    \* history: time of the latest failure recorded in half_open
    postgres_connection_breaker,  \* the worker's second breaker, same fields
    \* ---- leader_election.py: the lease key in Redis and each LeaderElection
    lock,               \* the key echodb:auto_mirror:leader_lock: [val, ttl]
    le,                 \* per worker: the LeaderElection object and its threads
    both_for,           \* history: ticks for which both workers have been leader
    \* ---- auto-mirror-worker.py: one worker's listen_for_tables and its world
    pc,                 \* where the main thread is in listen_for_tables
    shutdown_event,     \* the process-wide shutdown signal
    state,              \* WorkerState: running, connected, counters, last_error
    conn,               \* the Postgres session is open
    notifies,           \* conn.notifies: the polled batch still to be handled
    cur,                \* the notification being handled, how its executor call ended,
                        \* and the verifier's attempt counter
    redis,              \* the dedup registry: key -> absent | processing | processed
    mirrors,            \* the replicator's mirrors, by table (<table>_mirror)
    exit_code,          \* the process's exit code once it has ended
    hist                \* history: what has happened so far (for stating claims)

breakerVars == <<breaker, now, calls, probe_failed_at, postgres_connection_breaker>>
leaseVars == <<lock, le, both_for>>
workerVars == <<pc, shutdown_event, state, conn, notifies, cur, redis,
                mirrors, exit_code, hist>>

vars == <<breaker, now, calls, probe_failed_at, postgres_connection_breaker,
          lock, le, both_for,
          pc, shutdown_event, state, conn, notifies, cur, redis,
          mirrors, exit_code, hist>>

\* ------------------------------------------------------------------ bounds

\* CircuitBreakerConfig of the module's own demonstration (failure_threshold=3,
\* success_threshold=2); the timeout is counted in ticks.
failure_threshold == 3
success_threshold == 2
timeout == 2
\* The clock stops here.
MaxTime == 5

Callers == {"c1", "c2"}

\* LEADER_ELECTION_TTL, the lease's time to live, in ticks.
ttl == 4

Workers == {"w1", "w2"}

\* Notifications delivered to one worker in a run.
MaxNotifs == 3

\* The worker whose listen_for_tables is modelled (Config.WORKER_ID).
Self == "w1"

Channels == {"peerdb_create_mirror", "peerdb_drop_mirror"}
\* Config.get_sync_schemas(), and a schema outside it.
sync_schemas == {"public"}
Schemas == {"public", "audit"}
\* Config.get_excluded_tables(), and a table outside it.
excluded_tables == {"spatial_ref_sys"}
Tables == {"orders", "spatial_ref_sys"}
\* notify.pid: the backend that sent the notification.
Pids == {11, 12}

\* A notification: its channel, the sender's pid and the payload; json is whether
\* the payload parses. Two backends send creates of a synced table; one of them
\* also sends drops, a create of an excluded table, a create for a schema that is
\* not synced, and a payload that is not JSON.
Notifications ==
    [channel : {"peerdb_create_mirror"}, schema : sync_schemas,
     table : Tables \ excluded_tables, pid : Pids, json : {TRUE}]
    \cup [channel : {"peerdb_drop_mirror"}, schema : sync_schemas, table : Tables,
          pid : {11}, json : {TRUE}]
    \cup [channel : {"peerdb_create_mirror"}, schema : sync_schemas,
          table : excluded_tables, pid : {11}, json : {TRUE}]
    \cup [channel : {"peerdb_create_mirror"}, schema : Schemas \ sync_schemas,
          table : {"orders"}, pid : {11}, json : {TRUE}]
    \cup [channel : {"peerdb_create_mirror"}, schema : {"public"}, table : {"orders"},
          pid : {11}, json : {FALSE}]

\* payload.get("schema") of a payload without a schema field.
NoSchema == "None"

\* What a session can be sent besides: a drop for a schema that is not synced,
\* and a create and a drop whose payload has no schema field.
SessionNotifications ==
    Notifications
    \cup [channel : {"peerdb_drop_mirror"}, schema : Schemas \ sync_schemas,
          table : {"orders"}, pid : {11}, json : {TRUE}]
    \cup [channel : Channels, schema : {NoSchema}, table : {"orders"}, pid : {11},
          json : {TRUE}]

\* Config.MAX_RETRIES
MAX_RETRIES == 1

\* Config.MAX_RECONNECT_ATTEMPTS
MAX_RECONNECT_ATTEMPTS == 2

\* Executor invocations made on their own in a run.
MaxCalls == 5

\* What one poll can find in conn.notifies.
MaxBatch == 2
Batches == UNION {[1..k -> Notifications] : k \in 0..MaxBatch}
SessionBatches == UNION {[1..k -> SessionNotifications] : k \in 0..MaxBatch}

\* notification_id: f"{notify.channel}:{schema}.{table}:{notify.pid}"
notification_id(n) == <<n.channel, n.schema, n.table, n.pid>>
NotificationIds == Channels \X (Schemas \cup {NoSchema}) \X Tables \X Pids

\* ------------------------------------------------- circuit_breaker.py

\* CircuitBreaker.__init__
NewBreaker ==
    [state |-> "closed", failure_count |-> 0, success_count |-> 0,
     last_failure_time |-> {}]

\* Mutant of allow_request: an open breaker admits the call whatever the time.
allow_request_ignores_timeout(b, t) ==
    IF b.state = "open"
    THEN [b |-> [b EXCEPT !.state = "half_open", !.success_count = 0], allowed |-> TRUE]
    ELSE [b |-> b, allowed |-> TRUE]

\* CircuitBreaker._allow_request at time t: the breaker after it, and its answer.
allow_request(b, t) ==
    CASE b.state = "closed" -> [b |-> b, allowed |-> TRUE]
      [] b.state = "open" ->
            IF \E l \in b.last_failure_time : t - l >= timeout
            THEN [b |-> [b EXCEPT !.state = "half_open", !.success_count = 0],
                  allowed |-> TRUE]
            ELSE [b |-> b, allowed |-> FALSE]
      [] b.state = "half_open" -> [b |-> b, allowed |-> TRUE]
      [] OTHER -> [b |-> b, allowed |-> FALSE]

\* Mutant of on_success: successes are counted towards closing in open as well.
on_success_counts_when_open(b) ==
    IF b.state \in {"half_open", "open"}
    THEN LET n == b.success_count + 1 IN
         IF n >= success_threshold
         THEN [b EXCEPT !.success_count = n, !.state = "closed", !.failure_count = 0]
         ELSE [b EXCEPT !.success_count = n]
    ELSE IF b.state = "closed"
    THEN [b EXCEPT !.failure_count = 0]
    ELSE b

\* CircuitBreaker._on_success
on_success(b) ==
    IF b.state = "half_open"
    THEN LET n == b.success_count + 1 IN
         IF n >= success_threshold
         THEN [b EXCEPT !.success_count = n, !.state = "closed", !.failure_count = 0]
         ELSE [b EXCEPT !.success_count = n]
    ELSE IF b.state = "closed"
    THEN [b EXCEPT !.failure_count = 0]
    ELSE b

\* Mutant of on_failure: the threshold test is > instead of >=.
on_failure_opens_late(b, t) ==
    LET n  == b.failure_count + 1
        b1 == [b EXCEPT !.failure_count = n, !.last_failure_time = {t}]
        b2 == IF n > failure_threshold /\ b1.state # "open"
              THEN [b1 EXCEPT !.state = "open"] ELSE b1
    IN  IF b2.state = "half_open" THEN [b2 EXCEPT !.state = "open"] ELSE b2

\* Mutant of on_failure: last_failure_time is set only by the first failure.
on_failure_keeps_time(b, t) ==
    LET n  == b.failure_count + 1
        b1 == [b EXCEPT !.failure_count = n,
                        !.last_failure_time = IF @ = {} THEN {t} ELSE @]
        b2 == IF n >= failure_threshold /\ b1.state # "open"
              THEN [b1 EXCEPT !.state = "open"] ELSE b1
    IN  IF b2.state = "half_open" THEN [b2 EXCEPT !.state = "open"] ELSE b2

\* CircuitBreaker._on_failure at time t
on_failure(b, t) ==
    LET n  == b.failure_count + 1
        b1 == [b EXCEPT !.failure_count = n, !.last_failure_time = {t}]
        b2 == IF n >= failure_threshold /\ b1.state # "open"
              THEN [b1 EXCEPT !.state = "open"] ELSE b1
    IN  IF b2.state = "half_open" THEN [b2 EXCEPT !.state = "open"] ELSE b2


\* ------------------------------------------------- leader_election.py

\* The lease key absent.
NoKey == [val |-> {}, ttl |-> 0]

\* LeaderElection.__init__. heartbeat is the position of the heartbeat thread:
\* dead (none, or exited), check (at the loop's test), get (before the GET),
\* decide (after the GET), wait (in _stop_event.wait). rel is the position of a
\* relinquish_leadership call in progress. With the object go the time its
\* worker's main loop still waits before it tries to acquire again (retry_left)
\* and, once the worker's process has crashed, the time since (crashed_for).
NewElection ==
    [is_leader |-> FALSE, stop_event |-> FALSE, heartbeat |-> "dead",
     wait_left |-> 0, current_leader |-> {}, rel |-> "idle",
     retry_left |-> 0, crashed_for |-> {}]

\* LeaderElection.start_heartbeat
start_heartbeat(l) ==
    IF l.heartbeat = "dead"
    THEN [l EXCEPT !.stop_event = FALSE, !.heartbeat = "check"]
    ELSE l

\* Both workers see themselves as leader.
BothLeader(e) == \A w \in Workers : e[w].is_leader

\* both_for after a step that is not a tick.
KeepBoth == both_for' = IF BothLeader(le') THEN both_for ELSE 0

\* LeaderElection.acquire_leadership on key k and objects e: SET k w NX EX ttl;
\* err: the store raises RedisError. The key, the objects, and True or False.
acquire_leadership(w, err, k, e) ==
    IF err
    THEN [lock |-> k, le |-> [e EXCEPT ![w].is_leader = FALSE], result |-> FALSE]
    ELSE IF k.val = {}
    THEN [lock |-> [val |-> {w}, ttl |-> ttl],
          le |-> [e EXCEPT ![w] = start_heartbeat([e[w] EXCEPT !.is_leader = TRUE])],
          result |-> TRUE]
    ELSE [lock |-> k, le |-> [e EXCEPT ![w].is_leader = FALSE], result |-> FALSE]

\* LeaderElection.acquire_leadership; err: the store raises RedisError.
AcquireLeadership(w, err) ==
    /\ le[w].rel = "idle"
    /\ LET r == acquire_leadership(w, err, lock, le) IN
         /\ lock' = r.lock
         /\ le' = r.le
    /\ KeepBoth

\* _heartbeat_loop: the loop's test of _stop_event.
HeartbeatCheck(w) ==
    /\ le[w].heartbeat = "check"
    /\ le' = [le EXCEPT ![w].heartbeat = IF le[w].stop_event THEN "dead" ELSE "get"]
    /\ lock' = lock
    /\ KeepBoth

\* Mutant of HeartbeatGet: a RedisError is swallowed and the loop goes on.
HeartbeatGet_swallows_error(w, err) ==
    /\ le[w].heartbeat = "get"
    /\ le' = IF err
             THEN [le EXCEPT ![w].heartbeat = "wait", ![w].wait_left = ttl \div 2]
             ELSE [le EXCEPT ![w].current_leader = lock.val, ![w].heartbeat = "decide"]
    /\ lock' = lock
    /\ KeepBoth

\* _heartbeat_loop: current_leader = GET lock_key, or RedisError (surrender).
HeartbeatGet(w, err) ==
    /\ le[w].heartbeat = "get"
    /\ le' = IF err
             THEN [le EXCEPT ![w].is_leader = FALSE, ![w].heartbeat = "dead"]
             ELSE [le EXCEPT ![w].current_leader = lock.val, ![w].heartbeat = "decide"]
    /\ lock' = lock
    /\ KeepBoth

\* The heartbeat's EXPIRE lock_key ttl, on the key as it is then.
expire(k) == IF k.val = {} THEN k ELSE [k EXCEPT !.ttl = ttl]

\* _heartbeat_loop: renew when the value read is this worker's id, else surrender.
HeartbeatRenew(w, err) ==
    /\ le[w].heartbeat = "decide"
    /\ IF le[w].current_leader = {w} /\ ~err
       THEN /\ lock' = expire(lock)
            /\ le' = [le EXCEPT ![w].heartbeat = "wait", ![w].wait_left = ttl \div 2]
       ELSE /\ lock' = lock
            /\ le' = [le EXCEPT ![w].is_leader = FALSE, ![w].heartbeat = "dead"]
    /\ KeepBoth

\* _heartbeat_loop: _stop_event.wait(ttl / 2) returns (timed out, or the event set).
HeartbeatWake(w) ==
    /\ le[w].heartbeat = "wait"
    /\ le[w].wait_left = 0 \/ le[w].stop_event
    /\ le' = [le EXCEPT ![w].heartbeat = "check"]
    /\ lock' = lock
    /\ KeepBoth

\* relinquish_leadership: _stop_event.set() and the test of is_leader.
RelinquishBegin(w) ==
    /\ le[w].rel = "idle"
    /\ le' = IF le[w].is_leader
             THEN [le EXCEPT ![w].stop_event = TRUE, ![w].rel = "get"]
             ELSE [le EXCEPT ![w].stop_event = TRUE, ![w].is_leader = FALSE]
    /\ lock' = lock
    /\ KeepBoth

\* relinquish_leadership: current_leader = GET lock_key, or RedisError.
RelinquishGet(w, err) ==
    /\ le[w].rel = "get"
    /\ le' = IF ~err /\ lock.val = {w}
             THEN [le EXCEPT ![w].rel = "delete"]
             ELSE [le EXCEPT ![w].rel = "idle", ![w].is_leader = FALSE]
    /\ lock' = lock
    /\ KeepBoth

\* relinquish_leadership: DELETE lock_key (or RedisError), then is_leader = False.
RelinquishDelete(w, err) ==
    /\ le[w].rel = "delete"
    /\ lock' = IF err THEN lock ELSE NoKey
    /\ le' = [le EXCEPT ![w].rel = "idle", ![w].is_leader = FALSE]
    /\ KeepBoth

\* One tick on the key: Redis drops it when its time to live runs out.
age(k) == IF k.ttl <= 1 THEN NoKey ELSE [k EXCEPT !.ttl = k.ttl - 1]

\* One tick of time on the lease: the key ages and the heartbeats' waits run down.
LeaseTick ==
    /\ lock' = age(lock)
    /\ le' = [w \in Workers |->
                [le[w] EXCEPT !.wait_left = IF @ > 0 THEN @ - 1 ELSE 0]]
    /\ both_for' = IF BothLeader(le)
                   THEN (IF both_for > ttl THEN both_for ELSE both_for + 1)
                   ELSE 0

\* No thread has a step to take now: every store operation and every wake-up
\* happens on time.
Punctual ==
    \A w \in Workers :
        /\ le[w].rel = "idle"
        /\ le[w].heartbeat \in {"dead", "wait"}
        /\ le[w].heartbeat = "wait" => le[w].wait_left > 0 /\ ~le[w].stop_event


\* Config.LEADER_ELECTION_INTERVAL, in ticks (at most the lease's time to live).
election_interval == 2

\* The worker's process runs.
Alive(w) == le[w].crashed_for = {}

\* Before there is a leader: the worker's process has not started yet, it
\* starts a tick later.
StartLater(w) ==
    /\ lock = NoKey
    /\ \A v \in Workers : Alive(v)
    /\ le[w] = NewElection
    /\ le' = [le EXCEPT ![w].retry_left = 1]
    /\ lock' = lock
    /\ KeepBoth

\* Mutant of TryAcquire: after acquire_leadership has returned False the worker
\* does not try again in time.
TryAcquire_once(w) ==
    /\ Alive(w)
    /\ le[w].rel = "idle"
    /\ ~le[w].is_leader
    /\ le[w].retry_left = 0
    /\ LET r == acquire_leadership(w, FALSE, lock, le) IN
         /\ lock' = r.lock
         /\ le' = IF r.result THEN r.le
                  ELSE [r.le EXCEPT ![w].retry_left = 3 * ttl]
    /\ KeepBoth

\* The top of a follower's outer loop in listen_for_tables with the store
\* answering: acquire_leadership, and shutdown_event.wait of
\* LEADER_ELECTION_INTERVAL when it returns False.
TryAcquire(w) ==
    /\ Alive(w)
    /\ le[w].rel = "idle"
    /\ ~le[w].is_leader
    /\ le[w].retry_left = 0
    /\ LET r == acquire_leadership(w, FALSE, lock, le) IN
         /\ lock' = r.lock
         /\ le' = IF r.result THEN r.le
                  ELSE [r.le EXCEPT ![w].retry_left = election_interval]
    /\ KeepBoth

\* The leader's process is killed: its threads are gone, the key stays.
Crash(w) ==
    /\ \A v \in Workers : Alive(v)
    /\ le[w].is_leader
    /\ lock.val = {w}
    /\ le' = [le EXCEPT ![w] = [NewElection EXCEPT !.crashed_for = {0}]]
    /\ lock' = lock
    /\ KeepBoth

\* No thread of a running worker has a step to take now.
NothingDue ==
    \A w \in Workers :
        Alive(w) =>
            /\ le[w].rel = "idle"
            /\ le[w].heartbeat \in {"dead", "wait"}
            /\ le[w].heartbeat = "wait" => le[w].wait_left > 0 /\ ~le[w].stop_event
            /\ ~le[w].is_leader => le[w].retry_left > 0

\* One tick of time: the key ages, the waits run down, and the time since a
\* crash is counted up to one tick past twice the lease's time to live.
FailoverTick ==
    /\ NothingDue
    /\ lock' = age(lock)
    /\ le' = [w \in Workers |->
                [le[w] EXCEPT
                    !.wait_left = IF @ > 0 THEN @ - 1 ELSE 0,
                    !.retry_left = IF @ > 0 THEN @ - 1 ELSE 0,
                    !.crashed_for = {IF d > 2 * ttl THEN d ELSE d + 1 : d \in @}]]
    /\ both_for' = 0

\* ------------------------------------------------- auto-mirror-worker.py

\* WorkerState.__init__, and state.running = True in main.
NewWorkerState ==
    [running |-> TRUE, connected |-> FALSE, mirrors_created |-> 0,
     mirrors_failed |-> 0, last_error |-> "none"]

\* What claims need to know about the past: the channel of the latest notification
\* handled for each table, the notifications delivered (or executor invocations
\* made), whether every dedup store operation has succeeded and the replicator
\* has carried out every command, the create commands that exited 0, the
\* filter that last skipped a notification of the batch being handled, and the
\* schema whose table each mirror replicates (its TABLE MAPPING).
NewHistory ==
    [last |-> [t \in Tables |-> "none"], delivered |-> 0, healthy |-> TRUE,
     exit0 |-> 0, skipped |-> "none", source |-> [t \in Tables |-> {}]]

\* The top of listen_for_tables' outer loop: leave it on shutdown, else
\* acquire_leadership. A RedisError ends the process through main's handler with
\* exit code 1; a follower waits LEADER_ELECTION_INTERVAL and is back here; a
\* leader goes on to connect.
LoopTop ==
    /\ pc = "top"
    /\ IF shutdown_event
       THEN /\ pc' = "stop"
            /\ UNCHANGED <<leaseVars, state, exit_code>>
       ELSE \E err \in BOOLEAN :
            /\ AcquireLeadership(Self, err)
            /\ IF err
               THEN /\ pc' = "exited"
                    /\ exit_code' = {1}
                    /\ state' = [state EXCEPT !.running = FALSE, !.last_error = "fatal"]
               ELSE /\ pc' = IF le'[Self].is_leader THEN "connect" ELSE "top"
                    /\ state' = [state EXCEPT !.connected = le'[Self].is_leader]
                    /\ exit_code' = exit_code
    /\ UNCHANGED <<breakerVars, shutdown_event, conn, notifies, cur, redis,
                   mirrors, hist>>

\* relinquish_leadership as one step; err: the store raises RedisError.
relinquish_leadership(w, err) ==
    /\ le[w].rel = "idle"
    /\ lock' = IF le[w].is_leader /\ ~err /\ lock.val = {w} THEN NoKey ELSE lock
    /\ le' = [le EXCEPT ![w].stop_event = TRUE, ![w].is_leader = FALSE]
    /\ KeepBoth

\* connect_to_postgresql from the loop's test with attempt attempts made;
\* results[i]: psycopg2.connect succeeds at the i-th attempt.
RECURSIVE connect_attempts(_, _, _)
connect_attempts(attempt, results, st) ==
    IF attempt < MAX_RECONNECT_ATTEMPTS
    THEN IF results[attempt + 1]
         THEN [conn |-> TRUE, attempts |-> attempt + 1,
               state |-> [st EXCEPT !.connected = TRUE, !.last_error = "none"]]
         ELSE connect_attempts(attempt + 1, results,
                  [st EXCEPT !.last_error = "connection", !.connected = FALSE])
    ELSE [conn |-> FALSE, attempts |-> attempt, state |-> st]

\* connect_to_postgresql: the session or None, the attempts made, the state.
connect_to_postgresql(results, st) == connect_attempts(0, results, st)

\* connect_to_postgresql and LISTEN: a session, or None after
\* MAX_RECONNECT_ATTEMPTS failures; then the worker relinquishes and leaves the
\* loop (the finally clause finds no session and no leadership).
Connect(results) ==
    /\ pc = "connect"
    /\ LET r == connect_to_postgresql(results, state) IN
       /\ conn' = r.conn
       /\ state' = r.state
       /\ IF r.conn
          THEN /\ pc' = "listen"
               /\ UNCHANGED leaseVars
          ELSE /\ \E err \in BOOLEAN : relinquish_leadership(Self, err)
               /\ pc' = "stop"
    /\ UNCHANGED <<breakerVars, shutdown_event, notifies, cur, redis,
                   mirrors, exit_code, hist>>

\* The inner loop's test and conn.poll(): leave on shutdown; the session fails
\* (InterfaceError, OperationalError); or the notifications Postgres has sent to
\* the session since the last poll (batch) become conn.notifies.
Poll(lost, batch) ==
    /\ pc = "listen"
    /\ IF shutdown_event
       THEN /\ lost /\ batch = <<>>
            /\ pc' = "finally"
            /\ UNCHANGED <<state, notifies, hist>>
       ELSE IF lost
       THEN /\ batch = <<>>
            /\ pc' = "finally"
            /\ state' = [state EXCEPT !.last_error = "session"]
            /\ UNCHANGED <<notifies, hist>>
       ELSE /\ batch # <<>>
            /\ hist.delivered + Len(batch) <= MaxNotifs
            /\ notifies' = batch
            /\ hist' = [hist EXCEPT !.delivered = @ + Len(batch)]
            /\ pc' = "batch"
            /\ state' = state
    /\ UNCHANGED <<breakerVars, leaseVars, shutdown_event, conn, cur, redis, mirrors,
                   exit_code>>

\* conn.notifies.clear() after the for loop.
BatchEnd ==
    /\ pc = "batch"
    /\ notifies = <<>>
    /\ pc' = "listen"
    /\ hist' = [hist EXCEPT !.skipped = "none"]
    /\ UNCHANGED <<breakerVars, leaseVars, shutdown_event, state, conn, notifies, cur,
                   redis, mirrors, exit_code>>

\* Mutant of is_duplicate_notification: a store that cannot be asked counts as
\* holding the key.
is_duplicate_fails_closed(k, err) == err \/ redis[k] # "absent"

\* is_duplicate_notification; err: no client, or the store raises (then False).
is_duplicate_notification(k, err) == ~err /\ redis[k] # "absent"

\* mark_notification_processing / mark_notification_processed: SETEX, skipped
\* when the store raises.
mark(r, k, v, err) == IF err THEN r ELSE [r EXCEPT ![k] = v]

\* Mutant of json_loads: every payload parses.
json_loads_accepts_all(n) == TRUE

\* json.loads(notify.payload) returns (else it raises JSONDecodeError).
json_loads(n) == n.json

\* Mutant of skip_notification: both filters are applied to creates only.
skip_notification_creates_only(n) ==
    /\ n.channel = "peerdb_create_mirror"
    /\ (n.schema \notin sync_schemas \/ n.table \in excluded_tables)

\* Mutant of skip_notification: the exclusion filter is applied to drops too.
skip_notification_excludes_drops(n) ==
    n.schema \notin sync_schemas \/ n.table \in excluded_tables

\* The two filters: the schema is not one that is synced, or the notification is
\* a create of an excluded table.
skip_notification(n) ==
    \/ n.schema \notin sync_schemas
    \/ (n.channel = "peerdb_create_mirror" /\ n.table \in excluded_tables)

\* Mutant of next_notify: the newest notification is taken first.
next_notify_newest(q) == q[Len(q)]

\* for notify in conn.notifies: the notification the loop takes next.
next_notify(q) == Head(q)

\* The for loop's body up to the dispatch: parse, schema filter, exclusion filter
\* (creates only), duplicate check, mark as processing.
HandleBegin(e1, e2) ==
    /\ pc = "batch"
    /\ notifies # <<>>
    /\ LET n == next_notify(notifies)
           k == notification_id(n)
       IN  /\ notifies' = Tail(notifies)
           /\ IF ~json_loads(n)
              THEN /\ state' = [state EXCEPT !.last_error = "json"]
                   /\ UNCHANGED <<pc, cur, redis, hist>>
              ELSE IF skip_notification(n)
              THEN /\ hist' = [hist EXCEPT !.skipped =
                              IF n.schema \notin sync_schemas THEN "schema"
                              ELSE "excluded"]
                   /\ UNCHANGED <<pc, state, cur, redis>>
              ELSE IF is_duplicate_notification(k, e1)
              THEN /\ hist' = [hist EXCEPT !.last[n.table] = n.channel]
                   /\ UNCHANGED <<pc, state, cur, redis>>
              ELSE /\ redis' = mark(redis, k, "processing", e2)
                   /\ cur' = {[n |-> n, success |-> FALSE, raised |-> FALSE,
                                commands |-> 0, outcome |-> "none",
                                attempt |-> 0]}
                   /\ hist' = [hist EXCEPT !.last[n.table] = n.channel,
                                           !.healthy = @ /\ ~e1 /\ ~e2]
                   /\ pc' = "exec"
                   /\ state' = state
    /\ UNCHANGED <<breakerVars, leaseVars, shutdown_event, conn, mirrors,
                   exit_code>>

\* What the replicator can do with a command: carry it out (exit 0, or the
\* conflict message when there is nothing to do), refuse it with 'must acquire',
\* fail with another error, or not answer in 60 s.
Replies == {"done", "locked", "error", "timeout"}

\* The replicator sends 'must acquire' for the drop of a mirror it holds locked.
CanReply(channel, table, reply, m) ==
    reply = "locked" => (channel = "peerdb_drop_mirror" /\ table \in m)

\* subprocess.run(psql ... -c sql): whether the exit code is 0, what stderr
\* says, and the replicator's mirrors after the command.
psql(channel, table, reply, m) ==
    IF reply = "done" /\ channel = "peerdb_create_mirror"
    THEN IF table \in m
         THEN [returncode0 |-> FALSE, stderr |-> "already exists", mirrors |-> m]
         ELSE [returncode0 |-> TRUE, stderr |-> "", mirrors |-> m \cup {table}]
    ELSE IF reply = "done"
    THEN IF table \in m
         THEN [returncode0 |-> TRUE, stderr |-> "", mirrors |-> m \ {table}]
         ELSE [returncode0 |-> FALSE, stderr |-> "does not exist", mirrors |-> m]
    ELSE IF reply = "locked"
    THEN [returncode0 |-> FALSE, stderr |-> "must acquire", mirrors |-> m]
    ELSE [returncode0 |-> FALSE, stderr |-> reply, mirrors |-> m]

\* Mutant of create_mirror_internal: 'already exists' is treated as a failure.
create_mirror_internal_rejects_existing(table, replies, m, st) ==
    LET r == psql("peerdb_create_mirror", table, replies[1], m) IN
    IF r.returncode0
    THEN [mirrors |-> r.mirrors, ok |-> TRUE, raised |-> FALSE, commands |-> 1,
          outcome |-> "exit0",
          state |-> [st EXCEPT !.mirrors_created = @ + 1, !.last_error = "none"]]
    ELSE [mirrors |-> r.mirrors, ok |-> FALSE, raised |-> TRUE, commands |-> 1,
          outcome |-> "raised", state |-> st]

\* Mutant of create_mirror_internal: a failed attempt is repeated without a bound
\* on retry_count (here: once more than MAX_RETRIES allows).
create_mirror_internal_keeps_trying(table, replies, m, st) ==
    LET r == psql("peerdb_create_mirror", table, replies[1], m) IN
    IF r.returncode0
    THEN [mirrors |-> r.mirrors, ok |-> TRUE, raised |-> FALSE, commands |-> 1,
          outcome |-> "exit0",
          state |-> [st EXCEPT !.mirrors_created = @ + 1, !.last_error = "none"]]
    ELSE IF r.stderr = "already exists"
    THEN [mirrors |-> r.mirrors, ok |-> TRUE, raised |-> FALSE, commands |-> 1,
          outcome |-> "conflict", state |-> st]
    ELSE [mirrors |-> r.mirrors, ok |-> FALSE, raised |-> TRUE,
          commands |-> MAX_RETRIES + 2, outcome |-> "raised", state |-> st]

\* Mutant of create_mirror_internal: 'already exists' counts as a created mirror.
create_mirror_internal_counts_conflict(table, replies, m, st) ==
    LET r == psql("peerdb_create_mirror", table, replies[1], m) IN
    IF r.returncode0 \/ r.stderr = "already exists"
    THEN [mirrors |-> r.mirrors, ok |-> TRUE, raised |-> FALSE, commands |-> 1,
          outcome |-> IF r.returncode0 THEN "exit0" ELSE "conflict",
          state |-> [st EXCEPT !.mirrors_created = @ + 1, !.last_error = "none"]]
    ELSE [mirrors |-> r.mirrors, ok |-> FALSE, raised |-> TRUE, commands |-> 1,
          outcome |-> "raised", state |-> st]

\* _create_mirror_internal, given the replicator's reply to each attempt: the
\* mirrors and the WorkerState after it, whether it returned True (ok) or raised,
\* the commands it issued and how it ended. Every path through the loop's body
\* returns or raises, so the retry (retry_count += 1, the backoff) and the
\* statements after the loop are reached only when the loop is not entered.
create_mirror_internal(table, replies, m, st) ==
    IF 0 <= MAX_RETRIES
    THEN LET r == psql("peerdb_create_mirror", table, replies[1], m) IN
         IF r.returncode0
         THEN [mirrors |-> r.mirrors, ok |-> TRUE, raised |-> FALSE, commands |-> 1,
               outcome |-> "exit0",
               state |-> [st EXCEPT !.mirrors_created = @ + 1, !.last_error = "none"]]
         ELSE IF r.stderr = "already exists"
         THEN [mirrors |-> r.mirrors, ok |-> TRUE, raised |-> FALSE, commands |-> 1,
               outcome |-> "conflict", state |-> st]
         ELSE [mirrors |-> r.mirrors, ok |-> FALSE, raised |-> TRUE, commands |-> 1,
               outcome |-> "raised", state |-> st]
    ELSE [mirrors |-> m, ok |-> FALSE, raised |-> FALSE, commands |-> 0,
          outcome |-> "exhausted",
          state |-> [st EXCEPT !.mirrors_failed = @ + 1, !.last_error = "retries"]]

\* Mutant of drop_mirror_internal: 'does not exist' is treated as a failure.
drop_mirror_internal_rejects_missing(table, replies, m, st) ==
    LET r == psql("peerdb_drop_mirror", table, replies[1], m) IN
    IF r.returncode0
    THEN [mirrors |-> r.mirrors, ok |-> TRUE, raised |-> FALSE, commands |-> 1,
          outcome |-> "exit0", state |-> [st EXCEPT !.last_error = "none"]]
    ELSE IF r.stderr = "must acquire"
    THEN [mirrors |-> r.mirrors, ok |-> TRUE, raised |-> FALSE, commands |-> 1,
          outcome |-> "conflict", state |-> st]
    ELSE [mirrors |-> r.mirrors, ok |-> FALSE, raised |-> TRUE, commands |-> 1,
          outcome |-> "raised", state |-> st]

\* _drop_mirror_internal, given the replicator's reply to each attempt.
drop_mirror_internal(table, replies, m, st) ==
    IF 0 <= MAX_RETRIES
    THEN LET r == psql("peerdb_drop_mirror", table, replies[1], m) IN
         IF r.returncode0
         THEN [mirrors |-> r.mirrors, ok |-> TRUE, raised |-> FALSE, commands |-> 1,
               outcome |-> "exit0", state |-> [st EXCEPT !.last_error = "none"]]
         ELSE IF r.stderr \in {"does not exist", "must acquire"}
         THEN [mirrors |-> r.mirrors, ok |-> TRUE, raised |-> FALSE, commands |-> 1,
               outcome |-> "conflict", state |-> st]
         ELSE [mirrors |-> r.mirrors, ok |-> FALSE, raised |-> TRUE, commands |-> 1,
               outcome |-> "raised", state |-> st]
    ELSE [mirrors |-> m, ok |-> FALSE, raised |-> FALSE, commands |-> 0,
          outcome |-> "exhausted", state |-> [st EXCEPT !.last_error = "retries"]]

\* peerdb_api_breaker.call(f, ...) at time t on breaker b, f given by its result
\* r: rejected (CircuitBreakerOpenError), or f runs and its return or exception is
\* recorded.
breaker_call(b, t, r) ==
    LET a == allow_request(b, t) IN
    IF a.allowed
    THEN [breaker |-> IF r.raised THEN on_failure(a.b, t) ELSE on_success(a.b),
          rejected |-> FALSE]
    ELSE [breaker |-> a.b, rejected |-> TRUE]

\* Mutant of create_peerdb_mirror_with_retry: the internal function is called
\* whatever the breaker's phase.
create_without_breaker(table, replies, b, t, m, st) ==
    LET r == create_mirror_internal(table, replies, m, st) IN
    [breaker |-> IF r.raised THEN on_failure(b, t) ELSE on_success(b),
     mirrors |-> r.mirrors, ok |-> r.ok, raised |-> r.raised,
     commands |-> r.commands, outcome |-> r.outcome, state |-> r.state]

\* create_peerdb_mirror_with_retry: an open circuit sets last_error and returns
\* False; an exception of the internal function is raised on to the caller.
create_peerdb_mirror_with_retry(table, replies, b, t, m, st) ==
    LET r == create_mirror_internal(table, replies, m, st)
        c == breaker_call(b, t, r)
    IN  IF c.rejected
        THEN [breaker |-> c.breaker, mirrors |-> m, ok |-> FALSE, raised |-> FALSE,
              commands |-> 0, outcome |-> "rejected",
              state |-> [st EXCEPT !.last_error = "circuit"]]
        ELSE [breaker |-> c.breaker, mirrors |-> r.mirrors, ok |-> r.ok,
              raised |-> r.raised, commands |-> r.commands, outcome |-> r.outcome,
              state |-> r.state]

\* drop_peerdb_mirror_with_retry: an open circuit sets last_error and returns True.
drop_peerdb_mirror_with_retry(table, replies, b, t, m, st) ==
    LET r == drop_mirror_internal(table, replies, m, st)
        c == breaker_call(b, t, r)
    IN  IF c.rejected
        THEN [breaker |-> c.breaker, mirrors |-> m, ok |-> TRUE, raised |-> FALSE,
              commands |-> 0, outcome |-> "rejected",
              state |-> [st EXCEPT !.last_error = "circuit"]]
        ELSE [breaker |-> c.breaker, mirrors |-> r.mirrors, ok |-> r.ok,
              raised |-> r.raised, commands |-> r.commands, outcome |-> r.outcome,
              state |-> r.state]

\* The executor for a channel.
executor(channel, table, replies, b, t, m, st) ==
    IF channel = "peerdb_create_mirror"
    THEN create_peerdb_mirror_with_retry(table, replies, b, t, m, st)
    ELSE drop_peerdb_mirror_with_retry(table, replies, b, t, m, st)

\* mirror_name = f"{table}_mirror" in both executors: the replicator's mirrors
\* are named after the table alone.
mirror_name(schema, table) == table

\* The history after an executor invocation for schema.table with result r, the
\* mirrors having been m before: a mirror created by it maps schema.table.
Recorded(h, channel, schema, table, replies, r, m) ==
    [h EXCEPT !.healthy = @ /\ (r.outcome = "rejected" \/ replies[1] = "done"),
              !.exit0 = IF channel = "peerdb_create_mirror" /\ r.outcome = "exit0"
                        THEN @ + 1 ELSE @,
              !.source[mirror_name(schema, table)] =
                        IF mirror_name(schema, table) \in r.mirrors \ m
                        THEN {schema}
                        ELSE IF mirror_name(schema, table) \in m \ r.mirrors
                        THEN {}
                        ELSE @]

\* The dispatch of the notification being handled to its executor; the
\* replicator gives the same reply to every attempt.
Exec(reply) ==
    /\ pc = "exec"
    /\ LET c       == CHOOSE x \in cur : TRUE
           create  == c.n.channel = "peerdb_create_mirror"
           replies == [i \in 1..(MAX_RETRIES + 1) |-> reply]
           r       == executor(c.n.channel, mirror_name(c.n.schema, c.n.table),
                               replies, breaker, now, mirrors, state)
       IN  /\ IF r.outcome = "rejected"
              THEN reply = "done"
              ELSE CanReply(c.n.channel, c.n.table, reply, mirrors)
           /\ breaker' = r.breaker
           /\ mirrors' = r.mirrors
           /\ state' = r.state
           /\ cur' = {[c EXCEPT !.success = r.ok, !.raised = r.raised,
                                !.commands = r.commands, !.outcome = r.outcome]}
           /\ hist' = Recorded(hist, c.n.channel, c.n.schema, c.n.table, replies,
                               r, mirrors)
           /\ pc' = IF create /\ r.ok THEN "verify" ELSE "mark_done"
    /\ UNCHANGED <<now, calls, probe_failed_at, postgres_connection_breaker,
                   leaseVars, shutdown_event, conn, notifies, redis, exit_code>>

\* A top-level invocation of an executor on its own, for a table of a schema
\* and with the replicator's reply to each attempt.
InvokeFor(channel, schema, table, replies) ==
    /\ hist.delivered < MaxCalls
    /\ \A i \in DOMAIN replies :
          CanReply(channel, mirror_name(schema, table), replies[i], mirrors)
    /\ LET r == executor(channel, mirror_name(schema, table), replies, breaker,
                         now, mirrors, state) IN
         /\ breaker' = r.breaker
         /\ mirrors' = r.mirrors
         /\ state' = r.state
         /\ cur' = {[n |-> [channel |-> channel, schema |-> schema, table |-> table,
                            pid |-> 11, json |-> TRUE],
                     success |-> r.ok, raised |-> r.raised, commands |-> r.commands,
                     outcome |-> r.outcome, attempt |-> 0]}
         /\ hist' = [Recorded(hist, channel, schema, table, replies, r, mirrors)
                        EXCEPT !.delivered = @ + 1]
    /\ UNCHANGED <<now, calls, probe_failed_at, postgres_connection_breaker,
                   leaseVars, pc, shutdown_event, conn, notifies, redis, exit_code>>

\* The same for a table of the schema public.
Invoke(channel, table, replies) == InvokeFor(channel, "public", table, replies)

\* The rows a table can hold.
MaxRows == 1
Rows == 0..MaxRows

\* What a COUNT(*) query gives: nothing (the query raised), or the number of rows.
Answers == {{}} \cup {{r} : r \in Rows}

\* What the three count queries of one probe give: the source's, and
\* ClickHouse's under each of the two names tried (<table>, postgres.<table>).
Probes == [pg : Answers, bare : Answers, prefixed : Answers]

\* _get_postgres_count: the count, and 0 when the query raised.
get_postgres_count(a) == IF a = {} THEN 0 ELSE CHOOSE r \in a : TRUE

\* _get_clickhouse_count: the count under the first name that answers, and 0
\* when neither does.
get_clickhouse_count(bare, prefixed) ==
    IF bare # {} THEN CHOOSE r \in bare : TRUE
    ELSE IF prefixed # {} THEN CHOOSE r \in prefixed : TRUE
    ELSE 0

\* DataConsistencyChecker.verify_table_counts: the report made of the two counts
\* (its count functions treat a failed query as the worker's do).
verify_table_counts(p) ==
    LET pg_count == get_postgres_count(p.pg)
        ch_count == get_clickhouse_count(p.bare, p.prefixed)
    IN  [postgres_count |-> pg_count, clickhouse_count |-> ch_count,
         match |-> pg_count = ch_count, difference |-> pg_count - ch_count]

\* verify_mirror_consistency probes at most this many times.
max_attempts == 3

\* Mutant of verify_probe: the third mismatch is not recorded as an error.
verify_probe_forgets_error(attempt, p, st) ==
    LET pg_count == get_postgres_count(p.pg)
        ch_count == get_clickhouse_count(p.bare, p.prefixed)
    IN  [done |-> pg_count = ch_count \/ attempt >= max_attempts - 1,
         match |-> pg_count = ch_count,
         difference |-> pg_count - ch_count, state |-> st]

\* Mutant of verify_probe: the verifier gives up at the first mismatch.
verify_probe_once(attempt, p, st) ==
    LET pg_count == get_postgres_count(p.pg)
        ch_count == get_clickhouse_count(p.bare, p.prefixed)
    IN  [done |-> TRUE, match |-> pg_count = ch_count,
         difference |-> pg_count - ch_count,
         state |-> IF pg_count = ch_count THEN st
                   ELSE [st EXCEPT !.last_error = "consistency"]]

\* One iteration of verify_mirror_consistency's loop (attempt counts from 0):
\* both counts are taken; equal counts end the verification with True; a
\* mismatch is probed again after a wait, and the third one sets last_error and
\* ends the verification with False. Neither count function raises, so the
\* loop's except clause is not reached.
verify_probe(attempt, p, st) ==
    LET pg_count == get_postgres_count(p.pg)
        ch_count == get_clickhouse_count(p.bare, p.prefixed)
    IN  IF pg_count = ch_count
        THEN [done |-> TRUE, match |-> TRUE, difference |-> 0, state |-> st]
        ELSE IF attempt < max_attempts - 1
        THEN [done |-> FALSE, match |-> FALSE,
              difference |-> pg_count - ch_count, state |-> st]
        ELSE [done |-> TRUE, match |-> FALSE,
              difference |-> pg_count - ch_count,
              state |-> [st EXCEPT !.last_error = "consistency"]]

\* verify_mirror_consistency from the given attempt on, with what each probe's
\* queries give.
RECURSIVE verify_mirror_consistency(_, _, _)
verify_mirror_consistency(attempt, probes, st) ==
    LET r == verify_probe(attempt, probes[attempt + 1], st) IN
      IF r.done THEN r ELSE verify_mirror_consistency(attempt + 1, probes, st)

\* verify_mirror_consistency after a create that returned True, in one step:
\* every probe finds the counts equal (match), or every probe finds one row
\* missing in ClickHouse.
Verify(match) ==
    /\ pc = "verify"
    /\ LET p == [pg |-> {1}, bare |-> IF match THEN {1} ELSE {0}, prefixed |-> {}]
           r == verify_mirror_consistency(0, [i \in 1..max_attempts |-> p], state)
       IN  state' = r.state
    /\ pc' = "mark_done"
    /\ UNCHANGED <<breakerVars, leaseVars, shutdown_event, conn, notifies,
                   cur, redis, mirrors, exit_code, hist>>

\* verify_mirror_consistency one probe at a time: p is what the probe's count
\* queries give. The queries are made directly (psycopg2.connect,
\* clickhouse_connect.get_client); no breaker is involved.
VerifyProbe(p) ==
    /\ pc = "verify"
    /\ LET c == CHOOSE x \in cur : TRUE
           r == verify_probe(c.attempt, p, state)
       IN  /\ state' = r.state
           /\ cur' = {[c EXCEPT !.attempt = IF r.done THEN 0 ELSE @ + 1]}
           /\ pc' = IF r.done THEN "mark_done" ELSE "verify"
    /\ UNCHANGED <<breakerVars, leaseVars, shutdown_event, conn, notifies,
                   redis, mirrors, exit_code, hist>>

\* Mutant of MarkDone: the notification is marked as processed after the try
\* block, which an executor that fails does not reach.
MarkDone_only_after_success(err) ==
    /\ pc = "mark_done"
    /\ LET c == CHOOSE x \in cur : TRUE IN
         /\ redis' = IF c.success
                     THEN mark(redis, notification_id(c.n), "processed", err)
                     ELSE redis
         /\ state' = IF c.raised THEN [state EXCEPT !.last_error = "processing"]
                     ELSE state
    /\ hist' = [hist EXCEPT !.healthy = @ /\ ~err]
    /\ cur' = {}
    /\ pc' = "batch"
    /\ UNCHANGED <<breakerVars, leaseVars, shutdown_event, conn, notifies,
                   mirrors, exit_code>>

\* The finally clause: mark_notification_processed; then the handler of an
\* exception raised by the executor sets last_error.
MarkDone(err) ==
    /\ pc = "mark_done"
    /\ LET c == CHOOSE x \in cur : TRUE IN
         /\ redis' = mark(redis, notification_id(c.n), "processed", err)
         /\ state' = IF c.raised THEN [state EXCEPT !.last_error = "processing"]
                     ELSE state
    /\ hist' = [hist EXCEPT !.healthy = @ /\ ~err]
    /\ cur' = {}
    /\ pc' = "batch"
    /\ UNCHANGED <<breakerVars, leaseVars, shutdown_event, conn, notifies,
                   mirrors, exit_code>>

\* The outer finally clause: close the session and relinquish leadership if
\* is_leader; then shutdown_event.wait(RECONNECT_DELAY) unless shutting down, and
\* back to the top of the loop.
Finally ==
    /\ pc = "finally"
    /\ conn' = FALSE
    /\ notifies' = <<>>
    /\ IF le[Self].is_leader
       THEN \E err \in BOOLEAN : relinquish_leadership(Self, err)
       ELSE UNCHANGED leaseVars
    /\ pc' = "top"
    /\ UNCHANGED <<breakerVars, shutdown_event, state, cur, redis, mirrors,
                   exit_code, hist>>

\* leader_election.stop() after the loop (_stop_event.set(),
\* relinquish_leadership); listen_for_tables returns to main, which ends the
\* process normally.
Stop ==
    /\ pc = "stop"
    /\ \E err \in BOOLEAN : relinquish_leadership(Self, err)
    /\ pc' = "exited"
    /\ exit_code' = {0}
    /\ state' = [state EXCEPT !.running = FALSE]
    /\ UNCHANGED <<breakerVars, shutdown_event, conn, notifies, cur, redis, mirrors,
                   hist>>

\* main's signal_handler (SIGINT, SIGTERM).
Signal ==
    /\ ~shutdown_event
    /\ pc # "exited"
    /\ shutdown_event' = TRUE
    /\ state' = [state EXCEPT !.running = FALSE]
    /\ UNCHANGED <<breakerVars, leaseVars, pc, conn, notifies, cur, redis,
                   mirrors, exit_code, hist>>

\* A dedup key's time to live (300 s processing, 86 400 s processed) runs out;
\* these are long next to the handling of a batch, so it happens between batches.
ExpireKey(k) ==
    /\ pc = "listen"
    /\ redis[k] # "absent"
    /\ redis' = [redis EXCEPT ![k] = "absent"]
    /\ UNCHANGED <<breakerVars, leaseVars, pc, shutdown_event, state, conn, notifies, cur, mirrors, exit_code, hist>>

\* The main thread is handling a polled batch. None of these steps reads the
\* lease, and no step of the lease reads what they write, so the lease's steps
\* are taken between batches.
InBatch == pc \in {"batch", "exec", "verify", "mark_done"}

\* One iteration of the worker's _heartbeat_loop as one step: the loop's test,
\* GET, then EXPIRE and the wait, or surrender (err: the store raises RedisError).
\* How long the wait lasts is left open: an iteration can come at any time.
Beat(err) ==
    /\ pc # "exited"
    /\ ~InBatch
    /\ le[Self].heartbeat \in {"check", "wait"}
    /\ IF le[Self].stop_event
       THEN /\ le' = [le EXCEPT ![Self].heartbeat = "dead"]
            /\ lock' = lock
       ELSE IF err \/ lock.val # {Self}
       THEN /\ le' = [le EXCEPT ![Self].is_leader = FALSE, ![Self].heartbeat = "dead"]
            /\ lock' = lock
       ELSE /\ le' = [le EXCEPT ![Self].heartbeat = "wait"]
            /\ lock' = expire(lock)
    /\ KeepBoth
    /\ UNCHANGED <<breakerVars, workerVars>>


IdleCall == [pc |-> "idle", probe |-> FALSE, outcome |-> "none"]

\* CircuitBreaker.call up to the wrapped function: rejected with
\* CircuitBreakerOpenError, or admitted (the function is then running).
Call(c) ==
    /\ calls[c].pc = "idle"
    /\ LET r == allow_request(breaker, now) IN
         /\ breaker' = r.b
         /\ calls' = [calls EXCEPT ![c] =
                IF r.allowed
                THEN [pc |-> "running", probe |-> r.b.state = "half_open",
                      outcome |-> "none"]
                ELSE [pc |-> "idle", probe |-> FALSE, outcome |-> "CircuitOpen"]]
    /\ UNCHANGED <<now, probe_failed_at, postgres_connection_breaker, leaseVars,
                   workerVars>>

\* CircuitBreaker.call from the wrapped function's return (ok) or raise (~ok).
Return(c, ok) ==
    /\ calls[c].pc = "running"
    /\ breaker' = IF ok THEN on_success(breaker) ELSE on_failure(breaker, now)
    /\ calls' = [calls EXCEPT ![c] =
            [pc |-> "idle", probe |-> FALSE, outcome |-> IF ok THEN "Ok" ELSE "Err"]]
    /\ probe_failed_at' =
            IF ~ok /\ breaker.state = "half_open" THEN {now} ELSE probe_failed_at
    /\ UNCHANGED <<now, postgres_connection_breaker, leaseVars, workerVars>>

\* Mutant of reset: the phase is set to closed and the counters are left.
reset_keeps_counters(b) == [b EXCEPT !.state = "closed"]

\* CircuitBreaker.reset: closed, both counters 0, last_failure_time None.
reset(b) ==
    [state |-> "closed", failure_count |-> 0, success_count |-> 0,
     last_failure_time |-> {}]

\* reset() called by an operator while calls may be in flight.
Reset ==
    /\ breaker' = reset(breaker)
    /\ UNCHANGED <<now, calls, probe_failed_at, postgres_connection_breaker,
                   leaseVars, workerVars>>

\* time.time() advances.
Tick ==
    /\ now < MaxTime
    /\ now' = now + 1
    /\ UNCHANGED <<breaker, calls, probe_failed_at, postgres_connection_breaker,
                   leaseVars, workerVars>>

Init ==
    /\ breaker = NewBreaker
    /\ now = 0
    /\ calls = [c \in Callers |-> IdleCall]
    /\ probe_failed_at = {}
    /\ postgres_connection_breaker = NewBreaker
    /\ lock = NoKey
    /\ le = [w \in Workers |-> NewElection]
    /\ both_for = 0
    /\ pc = "top"
    /\ shutdown_event = FALSE
    /\ state = NewWorkerState
    /\ conn = FALSE
    /\ notifies = <<>>
    /\ cur = {}
    /\ redis = [k \in NotificationIds |-> "absent"]
    /\ mirrors = {}
    /\ exit_code = {}
    /\ hist = NewHistory

NextBreaker ==
    \/ \E c \in Callers : Call(c)
    \/ \E c \in Callers : \E ok \in BOOLEAN : Return(c, ok)
    \/ Tick

SpecBreaker == Init /\ [][NextBreaker]_vars

\* The breaker, its concurrent callers, the clock, and reset().
NextBreakerReset ==
    \/ \E c \in Callers : Call(c)
    \/ \E c \in Callers, ok \in BOOLEAN : Return(c, ok)
    \/ Tick
    \/ Reset

SpecBreakerReset == Init /\ [][NextBreakerReset]_vars

\* Two LeaderElection objects used through their API in any order, store errors
\* at any operation, time passing between any two steps.
Acquire(w) == \E err \in BOOLEAN : AcquireLeadership(w, err) /\ UNCHANGED <<breakerVars, workerVars>>
Heartbeat(w) ==
    /\ \/ HeartbeatCheck(w)
       \/ \E err \in BOOLEAN : HeartbeatGet(w, err)
       \/ \E err \in BOOLEAN : HeartbeatRenew(w, err)
       \/ HeartbeatWake(w)
    /\ UNCHANGED <<breakerVars, workerVars>>
Relinquish(w) ==
    /\ \/ RelinquishBegin(w)
       \/ \E err \in BOOLEAN : RelinquishGet(w, err)
       \/ \E err \in BOOLEAN : RelinquishDelete(w, err)
    /\ UNCHANGED <<breakerVars, workerVars>>
TickFree == LeaseTick /\ UNCHANGED <<breakerVars, workerVars>>
TickPunctual == Punctual /\ LeaseTick /\ UNCHANGED <<breakerVars, workerVars>>

NextLease ==
    \/ \E w \in Workers : Acquire(w)
    \/ \E w \in Workers : Heartbeat(w)
    \/ \E w \in Workers : Relinquish(w)
    \/ TickFree

SpecLease == Init /\ [][NextLease]_vars

\* The same, with every thread punctual: time passes only when no thread has a
\* step to take.
NextLeaseTimed ==
    \/ \E w \in Workers : Acquire(w)
    \/ \E w \in Workers : Heartbeat(w)
    \/ \E w \in Workers : Relinquish(w)
    \/ TickPunctual

SpecLeaseTimed == Init /\ [][NextLeaseTimed]_vars

\* Two workers' outer loops and heartbeats with the store answering, every
\* thread on time, and the leader's process killed at any moment.
NextFailover ==
    \/ \E w \in Workers : TryAcquire(w) /\ UNCHANGED <<breakerVars, workerVars>>
    \/ \E w \in Workers :
          /\ Alive(w)
          /\ \/ HeartbeatCheck(w)
             \/ HeartbeatGet(w, FALSE)
             \/ HeartbeatRenew(w, FALSE)
             \/ HeartbeatWake(w)
          /\ UNCHANGED <<breakerVars, workerVars>>
    \/ \E w \in Workers : Crash(w) /\ UNCHANGED <<breakerVars, workerVars>>
    \/ \E w \in Workers : StartLater(w) /\ UNCHANGED <<breakerVars, workerVars>>
    \/ FailoverTick /\ UNCHANGED <<breakerVars, workerVars>>

SpecFailover == Init /\ [][NextFailover]_vars

\* The heartbeat thread is alive and renewing.
Renewing == le[Self].heartbeat \in {"check", "wait"} /\ ~le[Self].stop_event

\* The key's time to live (SET ... EX ttl, EXPIRE) runs out: the heartbeats come
\* on time, so this happens when no heartbeat renews the key.
Lapse ==
    /\ pc # "exited"
    /\ ~InBatch
    /\ ~Renewing
    /\ lock.val # {}
    /\ lock' = NoKey
    /\ UNCHANGED <<le, both_for, breakerVars, workerVars>>

\* Time passes for peerdb_api_breaker. The breaker reads the clock at a failure
\* and, while open, in allow_request; time that passes while it is closed or half
\* open changes nothing it will read, so the clock is advanced while it is open.
BreakerTime == pc # "exited" /\ breaker.state = "open" /\ Tick

\* One worker's main thread and heartbeat thread, its session, the dedup store
\* and the replicator.
Next ==
    \/ LoopTop
    \/ \E results \in [1..MAX_RECONNECT_ATTEMPTS -> BOOLEAN] : Connect(results)
    \/ \E lost \in BOOLEAN, batch \in Batches : Poll(lost, batch)
    \/ BatchEnd
    \/ \E e1, e2 \in BOOLEAN : HandleBegin(e1, e2)
    \/ \E reply \in Replies : Exec(reply)
    \/ \E match \in BOOLEAN : Verify(match)
    \/ \E err \in BOOLEAN : MarkDone(err)
    \/ Finally
    \/ Stop
    \/ Signal
    \/ \E k \in NotificationIds : ExpireKey(k)
    \/ \E err \in BOOLEAN : Beat(err)
    \/ Lapse
    \/ BreakerTime

Spec == Init /\ [][Next]_vars

\* The executors called on their own, any table, any replies, and the clock.
NextExecutor ==
    \/ \E channel \in Channels, table \in Tables,
          replies \in [1..(MAX_RETRIES + 1) -> Replies] :
            Invoke(channel, table, replies)
    \/ Tick

SpecExecutor == Init /\ [][NextExecutor]_vars

\* The executors called for the tables of two schemas that the handler lets
\* through when both schemas are synced (SYNC_SCHEMA=public,audit), and the clock.
NextSchemas ==
    \/ \E channel \in Channels, schema \in Schemas,
          table \in Tables \ excluded_tables,
          replies \in [1..(MAX_RETRIES + 1) -> Replies] :
            InvokeFor(channel, schema, table, replies)
    \/ Tick

SpecSchemas == Init /\ [][NextSchemas]_vars

\* One worker's main thread with every kind of payload its session can be sent;
\* the lease is held for as long as the worker wants it (no heartbeat step and
\* no expiry of the key is taken).
NextSession ==
    \/ LoopTop
    \/ \E results \in [1..MAX_RECONNECT_ATTEMPTS -> BOOLEAN] : Connect(results)
    \/ \E lost \in BOOLEAN, batch \in SessionBatches : Poll(lost, batch)
    \/ BatchEnd
    \/ \E e1, e2 \in BOOLEAN : HandleBegin(e1, e2)
    \/ \E reply \in Replies : Exec(reply)
    \/ \E p \in Probes : VerifyProbe(p)
    \/ \E err \in BOOLEAN : MarkDone(err)
    \/ Finally
    \/ Stop
    \/ Signal
    \/ \E k \in NotificationIds : ExpireKey(k)
    \/ BreakerTime

SpecSession == Init /\ [][NextSession]_vars

\* ---------------------------------------------- claims: circuit breaker

InFlightProbes == {c \in Callers : calls[c].pc = "running" /\ calls[c].probe}

\* C6: in the closed phase a failed call adds one to failure_count, a successful
\* call resets it to 0, and the breaker opens exactly when failure_count reaches
\* failure_threshold (so a closed breaker always has fewer failures than that).
C6_ClosedPhaseCounting ==
    /\ [](breaker.state = "closed" => breaker.failure_count < failure_threshold)
    /\ [][\A c \in Callers : \A ok \in BOOLEAN :
            (Return(c, ok) /\ breaker.state = "closed") =>
                IF ok
                THEN breaker'.failure_count = 0 /\ breaker'.state = "closed"
                ELSE /\ breaker'.failure_count = breaker.failure_count + 1
                     /\ breaker'.state =
                            IF breaker'.failure_count >= failure_threshold
                            THEN "open" ELSE "closed"]_vars

\* C6 witness: a fresh breaker opened by failure_threshold consecutive failures.
C6_Witness ==
    /\ breaker.state = "open"
    /\ breaker.failure_count = failure_threshold
    /\ probe_failed_at = {}
    /\ \A c \in Callers : calls[c].pc = "idle"

\* C7: a call() made while the breaker is open and fewer than timeout ticks have
\* passed since the last recorded failure ends with CircuitOpen, the wrapped
\* function not invoked and the breaker's counters and last_failure_time as before.
C7_OpenRejects ==
    [][\A c \in Callers :
        (/\ Call(c)
         /\ breaker.state = "open"
         /\ \A l \in breaker.last_failure_time : now - l < timeout)
        => /\ calls'[c].outcome = "CircuitOpen"
           /\ calls'[c].pc = "idle"
           /\ breaker' = breaker]_vars

\* C7 witness: a caller holds CircuitOpen while the breaker is open within its timeout.
C7_Witness ==
    /\ breaker.state = "open"
    /\ \A l \in breaker.last_failure_time : now - l < timeout
    /\ \E c \in Callers : calls[c].outcome = "CircuitOpen" /\ calls[c].pc = "idle"

\* C8: while the breaker is half_open at most one probe (a call admitted in
\* half_open) is in flight.
C8_SingleProbe == Cardinality(InFlightProbes) <= 1

\* C9: a successful call in half_open counts one success; at success_threshold the
\* breaker closes with failure_count and success_count both 0, and below it the
\* breaker stays half_open.
C9_CloseResetsCounters ==
    [][\A c \in Callers :
        (Return(c, TRUE) /\ breaker.state = "half_open") =>
            IF breaker.success_count + 1 >= success_threshold
            THEN /\ breaker'.state = "closed"
                 /\ breaker'.failure_count = 0
                 /\ breaker'.success_count = 0
            ELSE /\ breaker'.state = "half_open"
                 /\ breaker'.success_count = breaker.success_count + 1]_vars

\* C10: a failed call in half_open opens the breaker with last_failure_time the
\* time of that failure, and no call is admitted to the wrapped function until
\* timeout ticks after that failure.
C10_ProbeFailureReopens ==
    /\ [][\A c \in Callers :
            (Return(c, FALSE) /\ breaker.state = "half_open") =>
                /\ breaker'.state = "open"
                /\ breaker'.last_failure_time = {now}]_vars
    /\ [][\A c \in Callers :
            (Call(c) /\ calls'[c].pc = "running") =>
                \A f \in probe_failed_at : now - f >= timeout]_vars

\* C10 witness: a probe failed, the breaker reopened, and a later call was admitted.
C10_Witness ==
    /\ probe_failed_at # {}
    /\ \E c \in Callers : calls[c].pc = "running" /\ calls[c].probe
    /\ \A f \in probe_failed_at : now - f >= timeout

\* The phase changes the breaker may make.
PhaseChanges ==
    {<<"closed", "open">>, <<"open", "half_open">>, <<"half_open", "closed">>,
     <<"half_open", "open">>}

\* C11: the breaker's phase changes only along closed->open, open->half_open,
\* half_open->closed and half_open->open; half_open is entered only by a call
\* that arrives at least timeout ticks after the last recorded failure; and a
\* step taken in the closed phase adds one to failure_count, sets it to 0 or
\* leaves it.
C11_PhaseTransitions ==
    [][/\ breaker'.state # breaker.state
            => <<breaker.state, breaker'.state>> \in PhaseChanges
       /\ (breaker'.state = "half_open" /\ breaker.state # "half_open")
            => /\ \E c \in Callers : Call(c) /\ calls'[c].pc = "running"
               /\ breaker.last_failure_time # {}
               /\ \A l \in breaker.last_failure_time : now - l >= timeout
       /\ breaker.state = "closed"
            => breaker'.failure_count \in
                    {breaker.failure_count, breaker.failure_count + 1, 0}]_vars

\* C11 witness: the breaker has opened, a probe has failed and reopened it, and
\* later probes have closed it.
C11_Witness ==
    /\ breaker.state = "closed"
    /\ breaker.success_count = success_threshold
    /\ probe_failed_at # {}

\* ---------------------------------------------- claims: leader election

\* C2: there is no interval longer than ttl throughout which both workers
\* have is_leader true.
C2_AtMostOneLeader == both_for <= ttl

\* C3: relinquish_leadership never deletes the lease key while the key holds
\* another worker's id.
C3_ReleaseComparesAndDeletes ==
    [][\A w \in Workers :
        (RelinquishDelete(w, FALSE) /\ lock.val # {}) => lock.val = {w}]_vars

\* C5: a heartbeat whose GET or EXPIRE raises, or whose GET returns a value
\* other than this worker's id, sets is_leader false, leaves the key's expiry
\* alone and ends the heartbeat thread; otherwise the heartbeat goes on, is_leader
\* is left as it was and the key, while still this worker's, expires in ttl again.
C5_HeartbeatTick ==
    [][\A w \in Workers :
        /\ (HeartbeatGet(w, TRUE) \/ HeartbeatRenew(w, TRUE)
              \/ (HeartbeatRenew(w, FALSE) /\ le[w].current_leader # {w}))
            => /\ ~le'[w].is_leader
               /\ le'[w].heartbeat = "dead"
               /\ lock' = lock
        /\ (HeartbeatRenew(w, FALSE) /\ le[w].current_leader = {w})
            => /\ le'[w].is_leader = le[w].is_leader
               /\ le'[w].heartbeat = "wait"
               /\ lock.val = {w} => lock' = [val |-> {w}, ttl |-> ttl]]_vars

\* C5 witness: a heartbeat that surrendered while the key still carries its own
\* worker's id (the store raised), and another that has just renewed.
C5_Witness ==
    \E w \in Workers :
        /\ ~le[w].is_leader /\ le[w].heartbeat = "dead"
        /\ ~le[w].stop_event /\ le[w].rel = "idle"
        /\ lock.val = {w}

\* -------------------------------------------------------- claims: executors

\* The replies the replicator can give to the attempts of one invocation.
ReplySeqs == [1..(MAX_RETRIES + 1) -> Replies]

\* The breaker is open and its timeout has not passed: it rejects a call.
Rejecting ==
    /\ breaker.state = "open"
    /\ \A l \in breaker.last_failure_time : now - l < timeout

\* C12: idempotent create. With the breaker closed and a replicator that carries
\* out every command, a create invocation returns True after one command; the
\* mirror exists afterwards; and when it existed before ('already exists'),
\* the mirrors and mirrors_created are as before.
C12_IdempotentCreate ==
    [][\A table \in Tables, replies \in ReplySeqs :
        (/\ breaker.state = "closed"
         /\ \A i \in DOMAIN replies : replies[i] = "done"
         /\ Invoke("peerdb_create_mirror", table, replies))
        => /\ \A c \in cur' : c.success /\ ~c.raised /\ c.commands = 1
           /\ mirrors' = mirrors \cup {table}
           /\ state'.mirrors_created =
                 IF table \in mirrors THEN state.mirrors_created
                 ELSE state.mirrors_created + 1]_vars

\* C12 witness: two creates of one table, the second answered 'already exists'.
C12_Witness ==
    /\ hist.delivered = 2
    /\ state.mirrors_created = 1
    /\ \E c \in cur : /\ c.n.channel = "peerdb_create_mirror"
                      /\ c.outcome = "conflict" /\ c.success
                      /\ mirrors = {c.n.table}

\* C13: idempotent drop. A drop invocation that the replicator carries out or
\* answers with 'must acquire' returns True, whether the mirror exists or not
\* and whatever the breaker's phase; without a mirror the mirrors stay as they
\* are.
C13_IdempotentDrop ==
    [][\A table \in Tables, replies \in ReplySeqs :
        (/\ \A i \in DOMAIN replies : replies[i] \in {"done", "locked"}
         /\ Invoke("peerdb_drop_mirror", table, replies))
        => /\ \A c \in cur' : c.success /\ ~c.raised
           /\ table \notin mirrors => mirrors' = mirrors]_vars

\* C13 witness: two drops of a mirror that never existed, both returned True.
C13_Witness ==
    /\ hist.delivered = 2
    /\ hist.exit0 = 0
    /\ mirrors = {}
    /\ state.last_error = "none"
    /\ breaker.failure_count = 0
    /\ \E c \in cur : /\ c.n.channel = "peerdb_drop_mirror"
                      /\ c.outcome = "conflict" /\ c.success

\* C14: the retry bound. An executor invocation issues at most MAX_RETRIES + 1
\* replicator commands, whatever the replies.
C14_RetryBound == \A c \in cur : c.commands <= MAX_RETRIES + 1

\* C14 witness: an invocation whose command failed has ended.
C14_Witness == \E c \in cur : c.outcome = "raised" /\ c.commands >= 1

\* C15: a failed attempt (another non-zero exit, or a timeout) is retried within
\* the invocation: when the first attempt fails and the second would exit 0,
\* the invocation returns True.
C15_TransientFailureRetried ==
    [][\A channel \in Channels, table \in Tables, replies \in ReplySeqs :
        (/\ breaker.state = "closed"
         /\ replies[1] \in {"error", "timeout"}
         /\ \A i \in DOMAIN replies : i > 1 => replies[i] = "done"
         /\ Invoke(channel, table, replies))
        => \A c \in cur' : c.success /\ ~c.raised]_vars

\* C16: mirrors_failed grows by one with every create invocation that fails
\* (does not return True), and is left alone by every other invocation.
C16_FailedCreateCounted ==
    [][\A channel \in Channels, table \in Tables, replies \in ReplySeqs :
        Invoke(channel, table, replies)
        => state'.mirrors_failed =
              IF channel = "peerdb_create_mirror" /\ \A c \in cur' : ~c.success
              THEN state.mirrors_failed + 1
              ELSE state.mirrors_failed]_vars

\* C17: an invocation rejected by the open breaker issues no replicator command
\* and changes no mirror; a create returns False and a drop returns True.
C17_OpenCircuit ==
    [][\A channel \in Channels, table \in Tables, replies \in ReplySeqs :
        (Rejecting /\ Invoke(channel, table, replies))
        => /\ \A c \in cur' : /\ c.commands = 0
                              /\ ~c.raised
                              /\ c.success = (channel = "peerdb_drop_mirror")
           /\ mirrors' = mirrors]_vars

\* C17 witness: the open breaker has rejected a create.
C17_Witness ==
    /\ Rejecting
    /\ state.last_error = "circuit"
    /\ \E c \in cur : /\ c.n.channel = "peerdb_create_mirror"
                      /\ c.outcome = "rejected" /\ ~c.success

\* C18: mirrors_created is the number of create commands that exited 0.
C18_CreatedCountsExitZero == state.mirrors_created = hist.exit0

\* C18 witness: a mirror was created twice, with a conflict, a failure or a drop
\* among the invocations.
C18_Witness ==
    /\ state.mirrors_created = 2
    /\ hist.delivered = MaxCalls
    /\ \E c \in cur : c.outcome \in {"conflict", "raised", "rejected"}

\* C29: leader failover. When the leader's process has been killed without
\* releasing the key, then twice the lease's time to live later, every due step
\* taken, the other worker (running, acquiring every LEADER_ELECTION_INTERVAL)
\* holds the key and is leader with its heartbeat running.
C29_Failover ==
    \A w \in Workers : \A d \in le[w].crashed_for :
        (d >= 2 * ttl /\ NothingDue)
        => \A v \in Workers \ {w} :
              /\ le[v].is_leader
              /\ lock.val = {v}
              /\ le[v].heartbeat = "wait"

\* C29 witness: the follower was waiting for its next attempt while the lease
\* of the killed leader ran out, and has become leader within the bound.
C29_Witness ==
    \E w \in Workers : \E d \in le[w].crashed_for :
        /\ d > ttl
        /\ d <= 2 * ttl
        /\ \A v \in Workers \ {w} :
              /\ le[v].is_leader
              /\ lock = [val |-> {v}, ttl |-> ttl]

\* --------------------------------------------------------- claims: session

\* C21: the marks around the executor call. The executor is reached only from
\* the step that marks the key as processing; while the executor and the
\* verification run the store is left alone and the next step of the handling
\* is the mark as processed, whether the executor returned True, returned False
\* or raised; with the store answering, the key is 'processing' from the first
\* mark and 'processed' after the second.
C21_MarkAroundExecutor ==
    [][/\ (pc # "exec" /\ pc' = "exec") => pc = "batch"
       /\ \A e1 \in BOOLEAN :
            (pc = "batch" /\ HandleBegin(e1, FALSE) /\ pc' = "exec")
            => \A c \in cur' : redis'[notification_id(c.n)] = "processing"
       /\ pc \in {"exec", "verify"}
            => redis' = redis /\ pc' \in {"exec", "verify", "mark_done"}
       /\ (pc = "mark_done" /\ pc' # "mark_done") => pc' = "batch"
       /\ (pc = "mark_done" /\ MarkDone(FALSE))
            => \A c \in cur : redis'[notification_id(c.n)] = "processed"]_vars

\* C21 witness: the only executor call so far raised, and its key is processed.
C21_Witness ==
    /\ pc = "batch"
    /\ state.last_error = "processing"
    /\ hist.delivered = 1
    /\ \E k \in NotificationIds : redis[k] = "processed"

\* The main thread is at the head of a batch that is not empty.
AtHead == pc = "batch" /\ notifies # <<>>

\* The step leaves the executors, the replicator, the breaker, the dedup store
\* and the counters as they are and goes on with the rest of the batch.
Passed ==
    /\ pc' = "batch"
    /\ notifies' = Tail(notifies)
    /\ cur' = {}
    /\ UNCHANGED <<mirrors, breaker, redis>>
    /\ state'.mirrors_created = state.mirrors_created
    /\ state'.mirrors_failed = state.mirrors_failed

\* C22: the schema filter. A notification on either channel whose payload parses
\* and whose schema is not in sync_schemas (a payload without a schema among
\* them) is passed over: no notification with such a schema is ever at an
\* executor.
C22_SchemaFilter ==
    [][/\ \A c \in cur' : c.n.schema \in sync_schemas
       /\ \A e1, e2 \in BOOLEAN :
            (/\ AtHead
             /\ Head(notifies).json
             /\ Head(notifies).schema \notin sync_schemas
             /\ HandleBegin(e1, e2))
            => Passed /\ state' = state]_vars

\* C22 witness: the schema filter has passed over a notification.
C22_Witness ==
    /\ hist.skipped = "schema"
    /\ pc = "batch"
    /\ cur = {}
    /\ mirrors = {}

\* C23: the exclusion filter. A create of an excluded table is passed over, the
\* counters as they were; a drop of an excluded table in a synced schema that the
\* dedup check lets through is dispatched.
C23_ExclusionFilter ==
    [][\A e1, e2 \in BOOLEAN :
        (/\ AtHead
         /\ Head(notifies).json
         /\ Head(notifies).schema \in sync_schemas
         /\ Head(notifies).table \in excluded_tables
         /\ HandleBegin(e1, e2))
        => IF Head(notifies).channel = "peerdb_create_mirror"
           THEN Passed /\ state' = state
           ELSE ~is_duplicate_notification(notification_id(Head(notifies)), e1)
                => /\ pc' = "exec"
                   /\ \A c \in cur' : c.n = Head(notifies)]_vars

\* C23 witness: in one batch the create of an excluded table has been passed
\* over and the drop of the excluded table is at the executor.
C23_Witness ==
    /\ hist.skipped = "excluded"
    /\ pc = "exec"
    /\ \E c \in cur : /\ c.n.channel = "peerdb_drop_mirror"
                      /\ c.n.table \in excluded_tables

\* C24: notifications are handled one at a time in the order of delivery. A
\* handling starts from the head of the batch with no other handling under way,
\* takes the oldest notification and leaves the others in their order; a batch
\* is polled only when the one before is used up.
C24_Sequential ==
    [][/\ (pc # "exec" /\ pc' = "exec")
            => /\ AtHead /\ cur = {}
               /\ \A c \in cur' : c.n = Head(notifies)
       /\ pc' \in {"exec", "verify", "mark_done"} => Cardinality(cur') = 1
       /\ notifies' # notifies
            => \/ pc = "batch" /\ notifies' = Tail(notifies)
               \/ pc = "listen" /\ notifies = <<>> /\ cur = {}
               \/ pc = "finally" /\ notifies' = <<>>]_vars

\* C24 witness: a create and then a drop of one table were delivered; the create
\* has made the mirror and the drop is at the executor.
C24_Witness ==
    /\ pc = "exec"
    /\ hist.delivered = 2
    /\ notifies = <<>>
    /\ hist.exit0 = 1
    /\ \E c \in cur : /\ c.n.channel = "peerdb_drop_mirror"
                      /\ c.n.table \in mirrors

\* C25: a payload that is not JSON is passed over with last_error set: no
\* executor call, no dedup key, nothing kept of it, and the rest of the batch
\* is handled.
C25_MalformedDropped ==
    [][\A e1, e2 \in BOOLEAN :
        (AtHead /\ ~Head(notifies).json /\ HandleBegin(e1, e2))
        => /\ Passed
           /\ state' = [state EXCEPT !.last_error = "json"]
           /\ hist' = hist]_vars

\* C25 witness: after a payload that is not JSON the next notification of the
\* batch is at the executor.
C25_Witness ==
    /\ pc = "exec"
    /\ state.last_error = "json"
    /\ hist.delivered = 2
    /\ notifies = <<>>

\* ------------------------------------------------------ claims: reconciler

\* The notification at the head of the batch passes the parse and the schema and
\* exclusion filters, so that the dedup check decides on it.
Checked ==
    /\ pc = "batch"
    /\ notifies # <<>>
    /\ Head(notifies).json
    /\ Head(notifies).schema \in sync_schemas
    /\ ~(/\ Head(notifies).channel = "peerdb_create_mirror"
         /\ Head(notifies).table \in excluded_tables)

\* C20: dedup fail-open. When the duplicate check cannot ask the store, the
\* notification is dispatched to its executor whatever the store holds; a
\* mark_notification_processing that fails leaves the store alone and the
\* notification is dispatched; a mark_notification_processed that fails leaves
\* the store alone and the batch goes on.
C20_FailOpen ==
    [][/\ \A e2 \in BOOLEAN :
            (Checked /\ HandleBegin(TRUE, e2))
            => pc' = "exec" /\ \A c \in cur' : c.n = Head(notifies)
       /\ (Checked /\ redis[notification_id(Head(notifies))] = "absent"
              /\ HandleBegin(FALSE, TRUE))
            => pc' = "exec" /\ redis' = redis
       /\ (pc = "mark_done" /\ MarkDone(TRUE))
            => pc' = "batch" /\ redis' = redis /\ notifies' = notifies]_vars

\* C20 witness: a notification is at its executor although the store holds its
\* key as processed: the duplicate check and the mark both failed.
C20_Witness ==
    /\ pc = "exec"
    /\ \E c \in cur : redis[notification_id(c.n)] = "processed"


\* C19: dedup exclusivity. A key is in the dedup store for at most 24 h after the
\* handling that put it there, so a notification whose key is in the store is not
\* dispatched to an executor, whether the store's operations fail or not.
C19_DedupExclusive ==
    [][(pc = "batch" /\ pc' = "exec")
       => redis[notification_id(Head(notifies))] = "absent"]_vars


\* The worker waits in poll with nothing polled and nothing being handled.
Quiescent == pc = "listen" /\ notifies = <<>> /\ cur = {}

\* C1: convergence. In a quiescent state of the leader, when every dedup store
\* operation has succeeded and the replicator has carried out every command, the
\* mirror of a table that is not excluded exists exactly when the latest
\* notification handled for the table was a create.
C1_Convergence ==
    (Quiescent /\ le[Self].is_leader /\ hist.healthy)
        => \A t \in Tables \ excluded_tables :
              (t \in mirrors) <=> (hist.last[t] = "peerdb_create_mirror")

\* C26: when every one of the MAX_RECONNECT_ATTEMPTS connection attempts has
\* failed, the worker makes no further attempt, leaves the loop, and the process
\* ends with exit code 1.
C26_ExhaustionExitsOne ==
    [][/\ \A results \in [1..MAX_RECONNECT_ATTEMPTS -> BOOLEAN] :
            (Connect(results) /\ \A i \in DOMAIN results : ~results[i])
            => /\ connect_to_postgresql(results, state).attempts
                      = MAX_RECONNECT_ATTEMPTS
               /\ pc' = "stop"
       /\ (/\ pc = "stop" /\ pc' = "exited"
           /\ state.last_error = "connection" /\ ~shutdown_event)
            => exit_code' = {1}]_vars

\* HealthCheckHandler.send_ready_response: /ready answers 200.
ready == state.running /\ state.connected

\* C27: /ready answers 200 exactly when the process is running and a Postgres
\* session is open.
C27_ReadyIffSession == ready <=> (state.running /\ conn)

\* C28: at-least-once creation. When the handling of a create whose executor
\* call did not return True ends, the notification's key is not left as
\* processed in the dedup store (which would let no later delivery through).
C28_FailedCreateNotProcessed ==
    [][\A c \in cur :
        (/\ pc = "mark_done" /\ pc' = "batch"
         /\ c.n.channel = "peerdb_create_mirror"
         /\ ~c.success
         /\ c.n.table \notin mirrors')
        => redis'[notification_id(c.n)] # "processed"]_vars

\* C30: graceful stop. When the worker ends after the shutdown signal through
\* leader_election.stop() with the store answering, the lease key does not hold
\* the worker's id afterwards, also when relinquish_leadership has not been
\* called since the key was acquired (the heartbeat may have surrendered).
C30_StopReleasesLease ==
    [][(/\ pc = "stop" /\ pc' = "exited"
        /\ shutdown_event
        /\ ~le[Self].stop_event
        /\ relinquish_leadership(Self, FALSE))
       => lock'.val # {Self}]_vars

\* C4: a worker whose is_leader flag is false is idle. The main thread takes
\* notifications from its session for handling only while is_leader is true.
C4_FollowerIsIdle ==
    [][(pc = "listen" /\ pc' = "batch") => le[Self].is_leader]_vars

\* ------------------------------- claims: shutdown, verifier, lease, mirror names

\* C31: once the shutdown signal is set the worker starts no new connection
\* attempt and no new notification handling: the main thread does not go from
\* the top of the for loop to a dispatch, and does not run
\* connect_to_postgresql, while shutdown_event is set.
C31_SignalStopsWork ==
    [][shutdown_event =>
         /\ ~(pc = "batch" /\ pc' = "exec")
         /\ ~(pc = "connect" /\ pc' # "connect")]_vars

C33_CountThroughBreaker ==
    [][\A p \in Probes :
         (pc = "verify" /\ VerifyProbe(p)) =>
            /\ postgres_connection_breaker.state # "open"
            /\ p.pg = {} =>
                  postgres_connection_breaker' =
                      on_failure(postgres_connection_breaker, now)]_vars

\* C38: the verifier reports a match only when both counts were read and are
\* equal: a probe whose source query failed, or whose target queries all
\* failed, does not end the verification with a match, and the checker's report
\* for such a probe does not say match.
C38_FailedCountNoMatch ==
    [][\A p \in Probes :
         (pc = "verify" /\ VerifyProbe(p)
            /\ (p.pg = {} \/ (p.bare = {} /\ p.prefixed = {}))) =>
            /\ \A c \in cur : ~verify_probe(c.attempt, p, state).match
            /\ ~verify_table_counts(p).match]_vars

\* C34: in every reachable state of the breaker, calls in flight and reset()
\* included: closed implies failure_count < failure_threshold, and open implies
\* last_failure_time is set.
C34_BreakerInvariant ==
    /\ breaker.state = "closed" => breaker.failure_count < failure_threshold
    /\ breaker.state = "open" => breaker.last_failure_time # {}

\* C34 witness: the breaker was opened (a caller was rejected) and then reset
\* while a call admitted earlier is still in flight: it is closed with no failure
\* time, which only reset() brings about once a failure has been recorded.
C34_Witness ==
    /\ breaker.state = "closed"
    /\ breaker.last_failure_time = {}
    /\ \E c \in Callers : calls[c].outcome = "CircuitOpen"
    /\ \E c \in Callers : calls[c].pc = "running"

\* C35: whenever a worker's acquire_leadership has returned true and is_leader
\* is still true (no relinquish_leadership call in progress), its heartbeat
\* thread is running with the stop flag clear; this holds too when leadership
\* is acquired again after a release that the previous heartbeat thread has not
\* yet noticed.
C35_LeaderHasHeartbeat ==
    \A w \in Workers :
        (le[w].is_leader /\ le[w].rel = "idle")
            => (le[w].heartbeat # "dead" /\ ~le[w].stop_event)

\* C36: the heartbeat's EXPIRE never extends the time to live of a key whose
\* value is another worker's id, whatever happens between its GET and its
\* EXPIRE.
C36_RenewOwnKeyOnly ==
    [][\A w \in Workers :
        (lock.val # {} /\ lock.val # {w} /\ HeartbeatRenew(w, FALSE))
            => lock'.ttl <= lock.ttl]_vars

\* C40: acquire_leadership called by the worker whose id the key holds (the
\* store answering, the key not expired) does not leave is_leader false while
\* the key is still held.
C40_HolderStaysLeader ==
    [][\A w \in Workers :
        (lock.val = {w} /\ le[w].is_leader /\ AcquireLeadership(w, FALSE))
            => (lock'.val = {w} => le'[w].is_leader)]_vars

\* C39: an acquire_leadership that does not make the worker leader, a store
\* error included, leaves is_leader false, starts no heartbeat, and leaves the
\* worker a follower that tries again: the main thread is back at the top of
\* its loop and the process has not ended.
C39_StoreErrorKeepsFollowing ==
    [][(pc = "top" /\ ~shutdown_event /\ ~le'[Self].is_leader)
         => /\ le'[Self].heartbeat = le[Self].heartbeat
            /\ pc' = "top"
            /\ exit_code' = {}]_vars

\* C37: with two synced schemas that both contain a table t, a drop for the
\* table of one schema never removes the mirror that replicates the table of
\* the other.
C37_DropKeepsOtherSchema ==
    [][\A c \in cur' :
         (/\ hist'.delivered = hist.delivered + 1
          /\ c.n.channel = "peerdb_drop_mirror"
          /\ c.n.table \in mirrors
          /\ hist.source[c.n.table] # {}
          /\ hist.source[c.n.table] # {c.n.schema})
         => c.n.table \in mirrors']_vars

====
